---------------------------- MODULE Spec2Model ----------------------------
(***************************************************************************)
(* State-machine model of CDiscAdjVariable                                 *)
(* (SU2_CFD/include/variables/CDiscAdjVariable.hpp): the per-node store of *)
(* the discrete-adjoint solver.  Every Mat_t member of the class is a      *)
(* variable holding a function  node -> component -> value;  every inline  *)
(* setter and snapshot method is an action; every getter is an operator    *)
(* giving the value read, plus an action for the access it performs.       *)
(***************************************************************************)
EXTENDS Integers, Sequences, FiniteSets

(* ------------------------------ bounds -------------------------------- *)

\* number of points handed to the constructor (npoint)
nPoint == 2
\* number of spatial dimensions handed to the constructor (ndim)
nDim == 1
\* number of solved variables handed to the constructor (nvar)
nVar == 2
\* number of calls a run of the full interface makes
MaxSteps == 2
\* number of calls a run of one protocol (BGS, dual time, geometry) makes
MaxChain == 3

Points == 0 .. (nPoint - 1)
Dims == 0 .. (nDim - 1)
Vars == 0 .. (nVar - 1)
\* the su2double values the callers pass; the class copies values and never
\* computes with them, so two distinguishable values exercise every path, and
\* 0 is the baseline the members are constructed with
Values == {0, 1}

\* arguments the callers may pass: one past the valid range included
PointArgs == 0 .. nPoint
DimArgs == 0 .. nDim
VarArgs == 0 .. nVar

\* the arrays a caller may pass to a batched setter expecting w elements:
\* exact, one element short, or one element long (the surplus element,
\* which no setter reads, is 0)
ArrayArgs(w) ==
  [1 .. w -> Values]
    \cup (IF w >= 1 THEN [1 .. (w - 1) -> Values] ELSE {})
    \cup {Append(a, 0) : a \in [1 .. w -> Values]}

\* the arrays passed where nVar, and where nDim, elements are expected
VarArrays == ArrayArgs(nVar)
DimArrays == ArrayArgs(nDim)

\* marker of a snapshot that has not been taken yet
NoSnapshot == <<>>

(* ------------------------------ state --------------------------------- *)

VARIABLES
  Sensitivity,
  Solution_Direct,
  DualTime_Derivative,
  DualTime_Derivative_n,
  Cross_Term_Derivative,
  Geometry_CrossTerm_Derivative,
  Geometry_CrossTerm_Derivative_Flow,
  Solution_Geometry,
  Solution_Geometry_Old,
  Geometry_Direct,
  Solution_BGS,
  Solution_BGS_k,
  Solution_Geometry_BGS_k,
  outcome,
  steps,
  budget,
  badIndex,
  bgsAtSnapshot,
  dtBefore,
  dtPhase,
  oldSnapshots,
  geoSnapshotTaken

\* the thirteen Mat_t members of the class
fields == << Sensitivity, Solution_Direct, DualTime_Derivative,
             DualTime_Derivative_n, Cross_Term_Derivative,
             Geometry_CrossTerm_Derivative, Geometry_CrossTerm_Derivative_Flow,
             Solution_Geometry, Solution_Geometry_Old, Geometry_Direct,
             Solution_BGS, Solution_BGS_k, Solution_Geometry_BGS_k >>

\* what the run has observed of its own calls (history, not program state)
history == << bgsAtSnapshot, dtBefore, dtPhase, oldSnapshots, geoSnapshotTaken >>

vars == << fields, outcome, steps, budget, badIndex, history >>

(* --------------------------- Mat_t access ----------------------------- *)

\* Mat_t::operator()(i, j) on a matrix of nPoint rows and w columns: the
\* access is bounds-checked against the row count and the declared width
\* mutant: the column check is off by one (j <= w)
Mut_InBoundsColumnInclusive(iPoint, j, w) == iPoint < nPoint /\ j <= w

InBounds(iPoint, j, w) == iPoint < nPoint /\ j < w

\* Mat_t::operator[](i): the row handed out as a pointer
RowInBounds(iPoint) == iPoint < nPoint

\* M(iPoint, j) = val
\* mutant: M(iPoint, j) += val
Mut_StoreAccumulate(M, iPoint, j, val) == [M EXCEPT ![iPoint][j] = @ + val]

Store(M, iPoint, j, val) == [M EXCEPT ![iPoint][j] = val]

\* val[k] read through a raw pointer to an array of Len(val) elements;
\* past the end the read yields whatever the memory holds (junk)
PtrRead(val, k, junk) == IF k < Len(val) THEN val[k + 1] ELSE junk

\* for (k = 0; k < w; k++) M(iPoint, k) = val[k]
StoreRow(M, iPoint, w, val, junk) ==
  [M EXCEPT ![iPoint] = [k \in DOMAIN M[iPoint] |->
      IF k < w THEN PtrRead(val, k, junk) ELSE M[iPoint][k]]]

\* for (k = 0; k < w; k++) Dst(iPoint, k) = Src(iPoint, k)
CopyRow(Dst, Src, iPoint, w) ==
  [Dst EXCEPT ![iPoint] = [k \in DOMAIN Dst[iPoint] |->
      IF k < w THEN Src[iPoint][k] ELSE Dst[iPoint][k]]]

\* the call returns normally
Returns == outcome' = "ok"

\* the call terminates the computation
Fails == outcome' = "error"

(* ------------------------------ getters ------------------------------- *)

GetSensitivity(iPoint, iDim) == Sensitivity[iPoint][iDim]

GetDual_Time_Derivative(iPoint, iVar) == DualTime_Derivative[iPoint][iVar]

GetDual_Time_Derivative_n(iPoint, iVar) == DualTime_Derivative_n[iPoint][iVar]

GetSolution_Direct(iPoint) == Solution_Direct[iPoint]

GetGeometry_DirectRow(iPoint) == Geometry_Direct[iPoint]

GetGeometry_Direct(iPoint, iDim) == Geometry_Direct[iPoint][iDim]

GetSolution_Geometry(iPoint, iDim) == Solution_Geometry[iPoint][iDim]

GetGeometry_CrossTerm_Derivative(iPoint, iVar) ==
  Geometry_CrossTerm_Derivative[iPoint][iVar]

GetGeometry_CrossTerm_Derivative_Flow(iPoint, iVar) ==
  Geometry_CrossTerm_Derivative_Flow[iPoint][iVar]

Get_OldSolution_Geometry(iPoint, iDim) == Solution_Geometry_Old[iPoint][iDim]

Get_BGSSolution(iPoint, iDim) == Solution_BGS[iPoint][iDim]

Get_BGSSolution_k(iPoint, iDim) == Solution_BGS_k[iPoint][iDim]

Get_BGSSolution_Geometry(iPoint, iDim) == Solution_Geometry_BGS_k[iPoint][iDim]

GetCross_Term_Derivative(iPoint, iVar) == Cross_Term_Derivative[iPoint][iVar]

(* ------------------------------ frames -------------------------------- *)

\* the members a method does not name keep their values
Except_Sensitivity ==
  << Solution_Direct, DualTime_Derivative, DualTime_Derivative_n,
     Cross_Term_Derivative, Geometry_CrossTerm_Derivative,
     Geometry_CrossTerm_Derivative_Flow, Solution_Geometry,
     Solution_Geometry_Old, Geometry_Direct, Solution_BGS,
     Solution_BGS_k, Solution_Geometry_BGS_k >>

Except_Solution_Direct ==
  << Sensitivity, DualTime_Derivative, DualTime_Derivative_n,
     Cross_Term_Derivative, Geometry_CrossTerm_Derivative,
     Geometry_CrossTerm_Derivative_Flow, Solution_Geometry,
     Solution_Geometry_Old, Geometry_Direct, Solution_BGS,
     Solution_BGS_k, Solution_Geometry_BGS_k >>

Except_DualTime_Derivative ==
  << Sensitivity, Solution_Direct, DualTime_Derivative_n,
     Cross_Term_Derivative, Geometry_CrossTerm_Derivative,
     Geometry_CrossTerm_Derivative_Flow, Solution_Geometry,
     Solution_Geometry_Old, Geometry_Direct, Solution_BGS,
     Solution_BGS_k, Solution_Geometry_BGS_k >>

Except_DualTime_Derivative_n ==
  << Sensitivity, Solution_Direct, DualTime_Derivative,
     Cross_Term_Derivative, Geometry_CrossTerm_Derivative,
     Geometry_CrossTerm_Derivative_Flow, Solution_Geometry,
     Solution_Geometry_Old, Geometry_Direct, Solution_BGS,
     Solution_BGS_k, Solution_Geometry_BGS_k >>

Except_Cross_Term_Derivative ==
  << Sensitivity, Solution_Direct, DualTime_Derivative,
     DualTime_Derivative_n, Geometry_CrossTerm_Derivative,
     Geometry_CrossTerm_Derivative_Flow, Solution_Geometry,
     Solution_Geometry_Old, Geometry_Direct, Solution_BGS,
     Solution_BGS_k, Solution_Geometry_BGS_k >>

Except_Geometry_CrossTerm_Derivative ==
  << Sensitivity, Solution_Direct, DualTime_Derivative,
     DualTime_Derivative_n, Cross_Term_Derivative,
     Geometry_CrossTerm_Derivative_Flow, Solution_Geometry,
     Solution_Geometry_Old, Geometry_Direct, Solution_BGS,
     Solution_BGS_k, Solution_Geometry_BGS_k >>

Except_Geometry_CrossTerm_Derivative_Flow ==
  << Sensitivity, Solution_Direct, DualTime_Derivative,
     DualTime_Derivative_n, Cross_Term_Derivative,
     Geometry_CrossTerm_Derivative, Solution_Geometry,
     Solution_Geometry_Old, Geometry_Direct, Solution_BGS,
     Solution_BGS_k, Solution_Geometry_BGS_k >>

Except_Solution_Geometry ==
  << Sensitivity, Solution_Direct, DualTime_Derivative,
     DualTime_Derivative_n, Cross_Term_Derivative,
     Geometry_CrossTerm_Derivative,
     Geometry_CrossTerm_Derivative_Flow, Solution_Geometry_Old,
     Geometry_Direct, Solution_BGS, Solution_BGS_k,
     Solution_Geometry_BGS_k >>

Except_Solution_Geometry_Old ==
  << Sensitivity, Solution_Direct, DualTime_Derivative,
     DualTime_Derivative_n, Cross_Term_Derivative,
     Geometry_CrossTerm_Derivative,
     Geometry_CrossTerm_Derivative_Flow, Solution_Geometry,
     Geometry_Direct, Solution_BGS, Solution_BGS_k,
     Solution_Geometry_BGS_k >>

Except_Geometry_Direct ==
  << Sensitivity, Solution_Direct, DualTime_Derivative,
     DualTime_Derivative_n, Cross_Term_Derivative,
     Geometry_CrossTerm_Derivative,
     Geometry_CrossTerm_Derivative_Flow, Solution_Geometry,
     Solution_Geometry_Old, Solution_BGS, Solution_BGS_k,
     Solution_Geometry_BGS_k >>

Except_Solution_BGS ==
  << Sensitivity, Solution_Direct, DualTime_Derivative,
     DualTime_Derivative_n, Cross_Term_Derivative,
     Geometry_CrossTerm_Derivative,
     Geometry_CrossTerm_Derivative_Flow, Solution_Geometry,
     Solution_Geometry_Old, Geometry_Direct, Solution_BGS_k,
     Solution_Geometry_BGS_k >>

Except_Solution_BGS_k ==
  << Sensitivity, Solution_Direct, DualTime_Derivative,
     DualTime_Derivative_n, Cross_Term_Derivative,
     Geometry_CrossTerm_Derivative,
     Geometry_CrossTerm_Derivative_Flow, Solution_Geometry,
     Solution_Geometry_Old, Geometry_Direct, Solution_BGS,
     Solution_Geometry_BGS_k >>

Except_Solution_Geometry_BGS_k ==
  << Sensitivity, Solution_Direct, DualTime_Derivative,
     DualTime_Derivative_n, Cross_Term_Derivative,
     Geometry_CrossTerm_Derivative,
     Geometry_CrossTerm_Derivative_Flow, Solution_Geometry,
     Solution_Geometry_Old, Geometry_Direct, Solution_BGS,
     Solution_BGS_k >>

(* ------------------------------ setters ------------------------------- *)

SetSensitivity(iPoint, iDim, val) ==
  IF InBounds(iPoint, iDim, nDim)
  THEN /\ Sensitivity' = Store(Sensitivity, iPoint, iDim, val)
       /\ Returns
       /\ UNCHANGED Except_Sensitivity
  ELSE Fails /\ UNCHANGED fields

\* mutant: setting the current derivative also overwrites the previous one
Mut_SetDual_Time_Derivative_BothSlots(iPoint, iVar, der) ==
  IF InBounds(iPoint, iVar, nVar)
  THEN /\ DualTime_Derivative' = Store(DualTime_Derivative, iPoint, iVar, der)
       /\ DualTime_Derivative_n' =
            Store(DualTime_Derivative_n, iPoint, iVar, der)
       /\ Returns
       /\ UNCHANGED << Sensitivity, Solution_Direct, Cross_Term_Derivative,
                       Geometry_CrossTerm_Derivative,
                       Geometry_CrossTerm_Derivative_Flow, Solution_Geometry,
                       Solution_Geometry_Old, Geometry_Direct, Solution_BGS,
                       Solution_BGS_k, Solution_Geometry_BGS_k >>
  ELSE Fails /\ UNCHANGED fields

SetDual_Time_Derivative(iPoint, iVar, der) ==
  IF InBounds(iPoint, iVar, nVar)
  THEN /\ DualTime_Derivative' = Store(DualTime_Derivative, iPoint, iVar, der)
       /\ Returns
       /\ UNCHANGED Except_DualTime_Derivative
  ELSE Fails /\ UNCHANGED fields

\* mutant: the _n setter stores into the current slot
Mut_SetDual_Time_Derivative_n_WrongSlot(iPoint, iVar, der) ==
  IF InBounds(iPoint, iVar, nVar)
  THEN /\ DualTime_Derivative' = Store(DualTime_Derivative, iPoint, iVar, der)
       /\ Returns
       /\ UNCHANGED Except_DualTime_Derivative
  ELSE Fails /\ UNCHANGED fields

SetDual_Time_Derivative_n(iPoint, iVar, der) ==
  IF InBounds(iPoint, iVar, nVar)
  THEN /\ DualTime_Derivative_n' = Store(DualTime_Derivative_n, iPoint, iVar, der)
       /\ Returns
       /\ UNCHANGED Except_DualTime_Derivative_n
  ELSE Fails /\ UNCHANGED fields

\* an array shorter than nVar is read past its end: the element read is
\* junk, or the read faults after the elements before it were stored
SetSolution_Direct(iPoint, val_solution_direct) ==
  IF ~InBounds(iPoint, 0, nVar)
  THEN Fails /\ UNCHANGED fields
  ELSE \/ \E junk \in (IF Len(val_solution_direct) < nVar THEN Values ELSE {0}) :
          /\ Solution_Direct' = StoreRow(Solution_Direct, iPoint, nVar, val_solution_direct, junk)
          /\ Returns
          /\ UNCHANGED Except_Solution_Direct
       \/ /\ Len(val_solution_direct) < nVar
          /\ Solution_Direct' = StoreRow(Solution_Direct, iPoint, Len(val_solution_direct), val_solution_direct, 0)
          /\ Fails
          /\ UNCHANGED Except_Solution_Direct

SetGeometry_Direct(iPoint, val_geometry_direct) ==
  IF ~InBounds(iPoint, 0, nDim)
  THEN Fails /\ UNCHANGED fields
  ELSE \/ \E junk \in (IF Len(val_geometry_direct) < nDim THEN Values ELSE {0}) :
          /\ Geometry_Direct' = StoreRow(Geometry_Direct, iPoint, nDim, val_geometry_direct, junk)
          /\ Returns
          /\ UNCHANGED Except_Geometry_Direct
       \/ /\ Len(val_geometry_direct) < nDim
          /\ Geometry_Direct' = StoreRow(Geometry_Direct, iPoint, Len(val_geometry_direct), val_geometry_direct, 0)
          /\ Fails
          /\ UNCHANGED Except_Geometry_Direct

SetSolution_GeometryRow(iPoint, val_solution_geometry) ==
  IF ~InBounds(iPoint, 0, nDim)
  THEN Fails /\ UNCHANGED fields
  ELSE \/ \E junk \in (IF Len(val_solution_geometry) < nDim THEN Values ELSE {0}) :
          /\ Solution_Geometry' = StoreRow(Solution_Geometry, iPoint, nDim, val_solution_geometry, junk)
          /\ Returns
          /\ UNCHANGED Except_Solution_Geometry
       \/ /\ Len(val_solution_geometry) < nDim
          /\ Solution_Geometry' = StoreRow(Solution_Geometry, iPoint, Len(val_solution_geometry), val_solution_geometry, 0)
          /\ Fails
          /\ UNCHANGED Except_Solution_Geometry

\* mutant: setting the geometry solution refreshes its time-step snapshot
Mut_SetSolution_Geometry_SyncOld(iPoint, iVar, val_solution_geometry) ==
  IF InBounds(iPoint, iVar, nDim)
  THEN /\ Solution_Geometry' =
            Store(Solution_Geometry, iPoint, iVar, val_solution_geometry)
       /\ Solution_Geometry_Old' =
            Store(Solution_Geometry_Old, iPoint, iVar, val_solution_geometry)
       /\ Returns
       /\ UNCHANGED << Sensitivity, Solution_Direct, DualTime_Derivative,
                       DualTime_Derivative_n, Cross_Term_Derivative,
                       Geometry_CrossTerm_Derivative,
                       Geometry_CrossTerm_Derivative_Flow, Geometry_Direct,
                       Solution_BGS, Solution_BGS_k, Solution_Geometry_BGS_k >>
  ELSE Fails /\ UNCHANGED fields

SetSolution_Geometry(iPoint, iVar, val_solution_geometry) ==
  IF InBounds(iPoint, iVar, nDim)
  THEN /\ Solution_Geometry' = Store(Solution_Geometry, iPoint, iVar, val_solution_geometry)
       /\ Returns
       /\ UNCHANGED Except_Solution_Geometry
  ELSE Fails /\ UNCHANGED fields

SetGeometry_CrossTerm_Derivative(iPoint, iDim, der) ==
  IF InBounds(iPoint, iDim, nDim)
  THEN /\ Geometry_CrossTerm_Derivative' = Store(Geometry_CrossTerm_Derivative, iPoint, iDim, der)
       /\ Returns
       /\ UNCHANGED Except_Geometry_CrossTerm_Derivative
  ELSE Fails /\ UNCHANGED fields

SetGeometry_CrossTerm_Derivative_Flow(iPoint, iDim, der) ==
  IF InBounds(iPoint, iDim, nDim)
  THEN /\ Geometry_CrossTerm_Derivative_Flow' = Store(Geometry_CrossTerm_Derivative_Flow, iPoint, iDim, der)
       /\ Returns
       /\ UNCHANGED Except_Geometry_CrossTerm_Derivative_Flow
  ELSE Fails /\ UNCHANGED fields

\* mutant: Solution_Geometry_Old(iPoint, iDim) += Solution_Geometry(iPoint, iDim)
Mut_Set_OldSolution_Geometry_Accumulate(iPoint) ==
  IF ~InBounds(iPoint, 0, nDim)
  THEN Fails /\ UNCHANGED fields
  ELSE /\ Solution_Geometry_Old' =
            [Solution_Geometry_Old EXCEPT ![iPoint] =
               [k \in DOMAIN @ |-> @[k] + Solution_Geometry[iPoint][k]]]
       /\ Returns
       /\ UNCHANGED Except_Solution_Geometry_Old

Set_OldSolution_Geometry(iPoint) ==
  IF ~InBounds(iPoint, 0, nDim)
  THEN Fails /\ UNCHANGED fields
  ELSE /\ Solution_Geometry_Old' = CopyRow(Solution_Geometry_Old, Solution_Geometry, iPoint, nDim)
       /\ Returns
       /\ UNCHANGED Except_Solution_Geometry_Old

\* mutant: the current solution and its snapshot are stored together
Mut_Set_BGSSolution_Coupled(iPoint, iDim, val_solution) ==
  IF InBounds(iPoint, iDim, nVar)
  THEN /\ Solution_BGS' = Store(Solution_BGS, iPoint, iDim, val_solution)
       /\ Solution_BGS_k' = Store(Solution_BGS_k, iPoint, iDim, val_solution)
       /\ Returns
       /\ UNCHANGED << Sensitivity, Solution_Direct, DualTime_Derivative,
                       DualTime_Derivative_n, Cross_Term_Derivative,
                       Geometry_CrossTerm_Derivative,
                       Geometry_CrossTerm_Derivative_Flow, Solution_Geometry,
                       Solution_Geometry_Old, Geometry_Direct,
                       Solution_Geometry_BGS_k >>
  ELSE Fails /\ UNCHANGED fields

Set_BGSSolution(iPoint, iDim, val_solution) ==
  IF InBounds(iPoint, iDim, nVar)
  THEN /\ Solution_BGS' = Store(Solution_BGS, iPoint, iDim, val_solution)
       /\ Returns
       /\ UNCHANGED Except_Solution_BGS
  ELSE Fails /\ UNCHANGED fields

\* mutant: the whole matrix is copied, not the row of iPoint
Mut_Set_BGSSolution_k_AllPoints(iPoint) ==
  IF ~InBounds(iPoint, 0, nVar)
  THEN Fails /\ UNCHANGED fields
  ELSE /\ Solution_BGS_k' = Solution_BGS
       /\ Returns
       /\ UNCHANGED Except_Solution_BGS_k

Set_BGSSolution_k(iPoint) ==
  IF ~InBounds(iPoint, 0, nVar)
  THEN Fails /\ UNCHANGED fields
  ELSE /\ Solution_BGS_k' = CopyRow(Solution_BGS_k, Solution_BGS, iPoint, nVar)
       /\ Returns
       /\ UNCHANGED Except_Solution_BGS_k

\* mutant: the BGS snapshot of the geometry lands in the time-step snapshot
Mut_Set_BGSSolution_Geometry_IntoOld(iPoint) ==
  IF ~InBounds(iPoint, 0, nDim)
  THEN Fails /\ UNCHANGED fields
  ELSE /\ Solution_Geometry_Old' =
            CopyRow(Solution_Geometry_Old, Solution_Geometry, iPoint, nDim)
       /\ Returns
       /\ UNCHANGED Except_Solution_Geometry_Old

Set_BGSSolution_Geometry(iPoint) ==
  IF ~InBounds(iPoint, 0, nDim)
  THEN Fails /\ UNCHANGED fields
  ELSE /\ Solution_Geometry_BGS_k' = CopyRow(Solution_Geometry_BGS_k, Solution_Geometry, iPoint, nDim)
       /\ Returns
       /\ UNCHANGED Except_Solution_Geometry_BGS_k

SetCross_Term_Derivative(iPoint, iVar, der) ==
  IF InBounds(iPoint, iVar, nVar)
  THEN /\ Cross_Term_Derivative' = Store(Cross_Term_Derivative, iPoint, iVar, der)
       /\ Returns
       /\ UNCHANGED Except_Cross_Term_Derivative
  ELSE Fails /\ UNCHANGED fields

(* --------------------------- getter calls ----------------------------- *)

\* a read of one element, or of one row: it changes no member
Access(inBounds) == (IF inBounds THEN Returns ELSE Fails) /\ UNCHANGED fields

Call_GetSensitivity(iPoint, iDim) == Access(InBounds(iPoint, iDim, nDim))

Call_GetDual_Time_Derivative(iPoint, iVar) == Access(InBounds(iPoint, iVar, nVar))

Call_GetDual_Time_Derivative_n(iPoint, iVar) == Access(InBounds(iPoint, iVar, nVar))

Call_GetGeometry_Direct(iPoint, iDim) == Access(InBounds(iPoint, iDim, nDim))

Call_GetSolution_Geometry(iPoint, iDim) == Access(InBounds(iPoint, iDim, nDim))

Call_GetGeometry_CrossTerm_Derivative(iPoint, iVar) == Access(InBounds(iPoint, iVar, nDim))

Call_GetGeometry_CrossTerm_Derivative_Flow(iPoint, iVar) == Access(InBounds(iPoint, iVar, nDim))

Call_Get_OldSolution_Geometry(iPoint, iDim) == Access(InBounds(iPoint, iDim, nDim))

Call_Get_BGSSolution(iPoint, iDim) == Access(InBounds(iPoint, iDim, nVar))

Call_Get_BGSSolution_k(iPoint, iDim) == Access(InBounds(iPoint, iDim, nVar))

Call_Get_BGSSolution_Geometry(iPoint, iDim) == Access(InBounds(iPoint, iDim, nDim))

Call_GetCross_Term_Derivative(iPoint, iVar) == Access(InBounds(iPoint, iVar, nVar))

Call_GetSolution_Direct(iPoint) == Access(RowInBounds(iPoint))

Call_GetGeometry_DirectRow(iPoint) == Access(RowInBounds(iPoint))

(* ---------------------------- construction ---------------------------- *)

\* a Mat_t of nPoint rows and w columns, every element at the baseline
Baseline(w) == [iPoint \in Points |-> [k \in 0 .. (w - 1) |-> 0]]

\* value of dtBefore while the current derivative was never updated
NeverUpdated == 0 - 1

Constructed ==
  /\ Sensitivity = Baseline(nDim)
  /\ Solution_Direct = Baseline(nVar)
  /\ DualTime_Derivative = Baseline(nVar)
  /\ DualTime_Derivative_n = Baseline(nVar)
  /\ Cross_Term_Derivative = Baseline(nVar)
  /\ Geometry_CrossTerm_Derivative = Baseline(nDim)
  /\ Geometry_CrossTerm_Derivative_Flow = Baseline(nDim)
  /\ Solution_Geometry = Baseline(nDim)
  /\ Solution_Geometry_Old = Baseline(nDim)
  /\ Geometry_Direct = Baseline(nDim)
  /\ Solution_BGS = Baseline(nVar)
  /\ Solution_BGS_k = Baseline(nVar)
  /\ Solution_Geometry_BGS_k = Baseline(nDim)
  /\ outcome = "ok"
  /\ steps = 0
  /\ badIndex = FALSE
  /\ bgsAtSnapshot = [iPoint \in Points |-> NoSnapshot]
  /\ dtBefore = [iPoint \in Points |-> [iVar \in Vars |-> NeverUpdated]]
  /\ dtPhase = [iPoint \in Points |-> [iVar \in Vars |-> "idle"]]
  /\ oldSnapshots = [iPoint \in Points |-> 0]
  /\ geoSnapshotTaken = [iPoint \in Points |-> FALSE]

\* a run of the full interface
Init == Constructed /\ budget = MaxSteps

\* a run of one protocol
InitChain == Constructed /\ budget = MaxChain

(* ------------------------------ history ------------------------------- *)

\* Set_BGSSolution_k(iPoint) was called: remember the current solution it saw
Saw_BGSSolution_k(iPoint) ==
  /\ bgsAtSnapshot' = IF iPoint \in Points
                      THEN [bgsAtSnapshot EXCEPT ![iPoint] = Solution_BGS[iPoint]]
                      ELSE bgsAtSnapshot
  /\ UNCHANGED << dtBefore, dtPhase, oldSnapshots, geoSnapshotTaken >>

\* SetDual_Time_Derivative(iPoint, iVar, .) was called: remember the value it
\* replaced, and whether the call before it on this entry was the roll-over
Saw_SetDual_Time_Derivative(iPoint, iVar) ==
  /\ UNCHANGED << bgsAtSnapshot, oldSnapshots, geoSnapshotTaken >>
  /\ IF InBounds(iPoint, iVar, nVar)
     THEN /\ dtBefore' = [dtBefore EXCEPT ![iPoint][iVar] =
                             DualTime_Derivative[iPoint][iVar]]
          /\ dtPhase' = [dtPhase EXCEPT ![iPoint][iVar] =
                             IF @ = "rolled" THEN "committed" ELSE "idle"]
     ELSE UNCHANGED << dtBefore, dtPhase >>

\* SetDual_Time_Derivative_n(iPoint, iVar, der) was called: it is the roll-over
\* when der is the value GetDual_Time_Derivative(iPoint, iVar) returns
Saw_SetDual_Time_Derivative_n(iPoint, iVar, der) ==
  /\ dtPhase' = IF InBounds(iPoint, iVar, nVar)
                THEN [dtPhase EXCEPT ![iPoint][iVar] =
                         IF der = GetDual_Time_Derivative(iPoint, iVar)
                         THEN "rolled" ELSE "idle"]
                ELSE dtPhase
  /\ UNCHANGED << dtBefore, bgsAtSnapshot, oldSnapshots, geoSnapshotTaken >>

\* oldSnapshots[iPoint]: how many times in a row (counted up to two)
\* Set_OldSolution_Geometry(iPoint) was called with no change of
\* Solution_Geometry(iPoint, .) since the first of them;
\* geoSnapshotTaken[iPoint]: Set_BGSSolution_Geometry(iPoint) was called
Saw_Geometry(oldOf, bgsOf) ==
  /\ oldSnapshots' = [iPoint \in Points |->
        IF iPoint \in oldOf THEN (IF oldSnapshots[iPoint] = 0 THEN 1 ELSE 2)
        ELSE IF Solution_Geometry'[iPoint] # Solution_Geometry[iPoint] THEN 0
        ELSE oldSnapshots[iPoint]]
  /\ geoSnapshotTaken' = [iPoint \in Points |->
        geoSnapshotTaken[iPoint] \/ iPoint \in bgsOf]
  /\ UNCHANGED << bgsAtSnapshot, dtBefore, dtPhase >>

(* ------------------------------ the calls ----------------------------- *)

\* the indices of a call as the caller sees them: a point index that is not
\* one of the nPoint points, or a component index that is not below the
\* declared width w of the member
PointOutOfRange(iPoint) == iPoint >= nPoint

OutOfRange(iPoint, j, w) == PointOutOfRange(iPoint) \/ j >= w

\* one more call is made while the computation runs and the budget lasts;
\* badIndex records whether the call was given an index out of range
Running(outOfRange) ==
  /\ outcome = "ok"
  /\ steps < budget
  /\ steps' = steps + 1
  /\ badIndex' = outOfRange
  /\ UNCHANGED budget

\* one action per method: the solver calls it with any arguments
Do_SetSensitivity ==
  \E iPoint \in PointArgs, iDim \in DimArgs, val \in Values :
    /\ Running(OutOfRange(iPoint, iDim, nDim))
    /\ SetSensitivity(iPoint, iDim, val)
    /\ UNCHANGED history

Do_GetSensitivity ==
  \E iPoint \in PointArgs, iDim \in DimArgs :
    /\ Running(OutOfRange(iPoint, iDim, nDim))
    /\ Call_GetSensitivity(iPoint, iDim)
    /\ UNCHANGED history

Do_SetDual_Time_Derivative ==
  \E iPoint \in PointArgs, iVar \in VarArgs, der \in Values :
    /\ Running(OutOfRange(iPoint, iVar, nVar))
    /\ SetDual_Time_Derivative(iPoint, iVar, der)
    /\ Saw_SetDual_Time_Derivative(iPoint, iVar)

Do_SetDual_Time_Derivative_n ==
  \E iPoint \in PointArgs, iVar \in VarArgs, der \in Values :
    /\ Running(OutOfRange(iPoint, iVar, nVar))
    /\ SetDual_Time_Derivative_n(iPoint, iVar, der)
    /\ Saw_SetDual_Time_Derivative_n(iPoint, iVar, der)

Do_GetDual_Time_Derivative ==
  \E iPoint \in PointArgs, iVar \in VarArgs :
    /\ Running(OutOfRange(iPoint, iVar, nVar))
    /\ Call_GetDual_Time_Derivative(iPoint, iVar)
    /\ UNCHANGED history

Do_GetDual_Time_Derivative_n ==
  \E iPoint \in PointArgs, iVar \in VarArgs :
    /\ Running(OutOfRange(iPoint, iVar, nVar))
    /\ Call_GetDual_Time_Derivative_n(iPoint, iVar)
    /\ UNCHANGED history

Do_SetSolution_Direct ==
  \E iPoint \in PointArgs, val \in VarArrays :
    /\ Running(PointOutOfRange(iPoint))
    /\ SetSolution_Direct(iPoint, val)
    /\ UNCHANGED history

Do_GetSolution_Direct ==
  \E iPoint \in PointArgs :
    /\ Running(PointOutOfRange(iPoint))
    /\ Call_GetSolution_Direct(iPoint)
    /\ UNCHANGED history

Do_SetGeometry_Direct ==
  \E iPoint \in PointArgs, val \in DimArrays :
    /\ Running(PointOutOfRange(iPoint))
    /\ SetGeometry_Direct(iPoint, val)
    /\ UNCHANGED history

Do_GetGeometry_DirectRow ==
  \E iPoint \in PointArgs :
    /\ Running(PointOutOfRange(iPoint))
    /\ Call_GetGeometry_DirectRow(iPoint)
    /\ UNCHANGED history

Do_GetGeometry_Direct ==
  \E iPoint \in PointArgs, iDim \in DimArgs :
    /\ Running(OutOfRange(iPoint, iDim, nDim))
    /\ Call_GetGeometry_Direct(iPoint, iDim)
    /\ UNCHANGED history

Do_GetSolution_Geometry ==
  \E iPoint \in PointArgs, iDim \in DimArgs :
    /\ Running(OutOfRange(iPoint, iDim, nDim))
    /\ Call_GetSolution_Geometry(iPoint, iDim)
    /\ UNCHANGED history

Do_SetSolution_GeometryRow ==
  \E iPoint \in PointArgs, val \in DimArrays :
    /\ Running(PointOutOfRange(iPoint))
    /\ SetSolution_GeometryRow(iPoint, val)
    /\ Saw_Geometry({}, {})

Do_SetSolution_Geometry ==
  \E iPoint \in PointArgs, iVar \in DimArgs, val \in Values :
    /\ Running(OutOfRange(iPoint, iVar, nDim))
    /\ SetSolution_Geometry(iPoint, iVar, val)
    /\ Saw_Geometry({}, {})

Do_GetGeometry_CrossTerm_Derivative ==
  \E iPoint \in PointArgs, iVar \in DimArgs :
    /\ Running(OutOfRange(iPoint, iVar, nDim))
    /\ Call_GetGeometry_CrossTerm_Derivative(iPoint, iVar)
    /\ UNCHANGED history

Do_SetGeometry_CrossTerm_Derivative ==
  \E iPoint \in PointArgs, iDim \in DimArgs, der \in Values :
    /\ Running(OutOfRange(iPoint, iDim, nDim))
    /\ SetGeometry_CrossTerm_Derivative(iPoint, iDim, der)
    /\ UNCHANGED history

Do_GetGeometry_CrossTerm_Derivative_Flow ==
  \E iPoint \in PointArgs, iVar \in DimArgs :
    /\ Running(OutOfRange(iPoint, iVar, nDim))
    /\ Call_GetGeometry_CrossTerm_Derivative_Flow(iPoint, iVar)
    /\ UNCHANGED history

Do_SetGeometry_CrossTerm_Derivative_Flow ==
  \E iPoint \in PointArgs, iDim \in DimArgs, der \in Values :
    /\ Running(OutOfRange(iPoint, iDim, nDim))
    /\ SetGeometry_CrossTerm_Derivative_Flow(iPoint, iDim, der)
    /\ UNCHANGED history

Do_Set_OldSolution_Geometry ==
  \E iPoint \in PointArgs :
    /\ Running(PointOutOfRange(iPoint))
    /\ Set_OldSolution_Geometry(iPoint)
    /\ Saw_Geometry({iPoint}, {})

Do_Get_OldSolution_Geometry ==
  \E iPoint \in PointArgs, iDim \in DimArgs :
    /\ Running(OutOfRange(iPoint, iDim, nDim))
    /\ Call_Get_OldSolution_Geometry(iPoint, iDim)
    /\ UNCHANGED history

Do_Set_BGSSolution ==
  \E iPoint \in PointArgs, iDim \in VarArgs, val \in Values :
    /\ Running(OutOfRange(iPoint, iDim, nVar))
    /\ Set_BGSSolution(iPoint, iDim, val)
    /\ UNCHANGED history

Do_Set_BGSSolution_k ==
  \E iPoint \in PointArgs :
    /\ Running(PointOutOfRange(iPoint))
    /\ Set_BGSSolution_k(iPoint)
    /\ Saw_BGSSolution_k(iPoint)

Do_Get_BGSSolution ==
  \E iPoint \in PointArgs, iDim \in VarArgs :
    /\ Running(OutOfRange(iPoint, iDim, nVar))
    /\ Call_Get_BGSSolution(iPoint, iDim)
    /\ UNCHANGED history

Do_Get_BGSSolution_k ==
  \E iPoint \in PointArgs, iDim \in VarArgs :
    /\ Running(OutOfRange(iPoint, iDim, nVar))
    /\ Call_Get_BGSSolution_k(iPoint, iDim)
    /\ UNCHANGED history

Do_Set_BGSSolution_Geometry ==
  \E iPoint \in PointArgs :
    /\ Running(PointOutOfRange(iPoint))
    /\ Set_BGSSolution_Geometry(iPoint)
    /\ Saw_Geometry({}, {iPoint})

Do_Get_BGSSolution_Geometry ==
  \E iPoint \in PointArgs, iDim \in DimArgs :
    /\ Running(OutOfRange(iPoint, iDim, nDim))
    /\ Call_Get_BGSSolution_Geometry(iPoint, iDim)
    /\ UNCHANGED history

Do_SetCross_Term_Derivative ==
  \E iPoint \in PointArgs, iVar \in VarArgs, der \in Values :
    /\ Running(OutOfRange(iPoint, iVar, nVar))
    /\ SetCross_Term_Derivative(iPoint, iVar, der)
    /\ UNCHANGED history

Do_GetCross_Term_Derivative ==
  \E iPoint \in PointArgs, iVar \in VarArgs :
    /\ Running(OutOfRange(iPoint, iVar, nVar))
    /\ Call_GetCross_Term_Derivative(iPoint, iVar)
    /\ UNCHANGED history

(* Every method, called in any order by the solver. *)
Next ==
  \/ Do_SetSensitivity
  \/ Do_GetSensitivity
  \/ Do_SetDual_Time_Derivative
  \/ Do_SetDual_Time_Derivative_n
  \/ Do_GetDual_Time_Derivative
  \/ Do_GetDual_Time_Derivative_n
  \/ Do_SetSolution_Direct
  \/ Do_GetSolution_Direct
  \/ Do_SetGeometry_Direct
  \/ Do_GetGeometry_DirectRow
  \/ Do_GetGeometry_Direct
  \/ Do_GetSolution_Geometry
  \/ Do_SetSolution_GeometryRow
  \/ Do_SetSolution_Geometry
  \/ Do_GetGeometry_CrossTerm_Derivative
  \/ Do_SetGeometry_CrossTerm_Derivative
  \/ Do_GetGeometry_CrossTerm_Derivative_Flow
  \/ Do_SetGeometry_CrossTerm_Derivative_Flow
  \/ Do_Set_OldSolution_Geometry
  \/ Do_Get_OldSolution_Geometry
  \/ Do_Set_BGSSolution
  \/ Do_Set_BGSSolution_k
  \/ Do_Get_BGSSolution
  \/ Do_Get_BGSSolution_k
  \/ Do_Set_BGSSolution_Geometry
  \/ Do_Get_BGSSolution_Geometry
  \/ Do_SetCross_Term_Derivative
  \/ Do_GetCross_Term_Derivative

Spec == Init /\ [][Next]_vars

(* The calls that store: the setters and the three snapshots. *)
NextWrites ==
  \/ Do_SetSensitivity
  \/ Do_SetDual_Time_Derivative
  \/ Do_SetDual_Time_Derivative_n
  \/ Do_SetSolution_Direct
  \/ Do_SetGeometry_Direct
  \/ Do_SetSolution_GeometryRow
  \/ Do_SetSolution_Geometry
  \/ Do_SetGeometry_CrossTerm_Derivative
  \/ Do_SetGeometry_CrossTerm_Derivative_Flow
  \/ Do_Set_OldSolution_Geometry
  \/ Do_Set_BGSSolution
  \/ Do_Set_BGSSolution_k
  \/ Do_Set_BGSSolution_Geometry
  \/ Do_SetCross_Term_Derivative

SpecWrites == Init /\ [][NextWrites]_vars

(* The BGS driver: the current solution and its previous-subiteration copy. *)
NextBGS ==
  \/ Do_Set_BGSSolution
  \/ Do_Set_BGSSolution_k
  \/ Do_Get_BGSSolution
  \/ Do_Get_BGSSolution_k

SpecBGS == InitChain /\ [][NextBGS]_vars

(* The time-stepping driver: the two dual-time derivative slots. *)
NextDualTime ==
  \/ Do_SetDual_Time_Derivative
  \/ Do_SetDual_Time_Derivative_n
  \/ Do_GetDual_Time_Derivative
  \/ Do_GetDual_Time_Derivative_n

SpecDualTime == InitChain /\ [][NextDualTime]_vars

(* The mesh-adjoint solution and its two snapshots. *)
NextGeometry ==
  \/ Do_GetSolution_Geometry
  \/ Do_SetSolution_GeometryRow
  \/ Do_SetSolution_Geometry
  \/ Do_Set_OldSolution_Geometry
  \/ Do_Get_OldSolution_Geometry
  \/ Do_Set_BGSSolution_Geometry
  \/ Do_Get_BGSSolution_Geometry

SpecGeometry == InitChain /\ [][NextGeometry]_vars

(* ============================== claims ================================ *)

\* the arrays of exactly the expected length
ExactVarArrays == {a \in VarArrays : Len(a) = nVar}
ExactDimArrays == {a \in DimArrays : Len(a) = nDim}

\* the arrays whose length is not the expected one
MismatchedVarArrays == {a \in VarArrays : Len(a) # nVar}
MismatchedDimArrays == {a \in DimArrays : Len(a) # nDim}

\* every member's row of one point
RowsAt(iPoint) ==
  << Sensitivity[iPoint], Solution_Direct[iPoint],
     DualTime_Derivative[iPoint], DualTime_Derivative_n[iPoint],
     Cross_Term_Derivative[iPoint], Geometry_CrossTerm_Derivative[iPoint],
     Geometry_CrossTerm_Derivative_Flow[iPoint], Solution_Geometry[iPoint],
     Solution_Geometry_Old[iPoint], Geometry_Direct[iPoint],
     Solution_BGS[iPoint], Solution_BGS_k[iPoint],
     Solution_Geometry_BGS_k[iPoint] >>

(* ---- C1 ---- *)

\* C1: once Set_BGSSolution_k(i) has been called, Get_BGSSolution_k(i, v)
\* is, for every variable v, the value Get_BGSSolution(i, v) had at the
\* moment of that call, whatever Set_BGSSolution calls came later, until
\* Set_BGSSolution_k(i) is called again.
C1_SnapshotKeepsValueAtCall ==
  \A iPoint \in Points :
    bgsAtSnapshot[iPoint] # NoSnapshot =>
      \A iVar \in Vars :
        Get_BGSSolution_k(iPoint, iVar) = bgsAtSnapshot[iPoint][iVar]

\* a non-baseline current solution was snapshotted and then changed
C1_Witness ==
  \E iPoint \in Points :
    /\ bgsAtSnapshot[iPoint] # NoSnapshot
    /\ \E iVar \in Vars : Get_BGSSolution_k(iPoint, iVar) # 0
    /\ \E iVar \in Vars :
         Get_BGSSolution(iPoint, iVar) # Get_BGSSolution_k(iPoint, iVar)

(* ---- C2 ---- *)

\* C2 as stated: once the current dual-time derivative of (node, var) has
\* been updated, DualTime_Derivative_n(node, var) is the value
\* DualTime_Derivative(node, var) had before its most recent update.
C2_PrevAlwaysTracksCurrent ==
  \A iPoint \in Points, iVar \in Vars :
    dtBefore[iPoint][iVar] # NeverUpdated =>
      GetDual_Time_Derivative_n(iPoint, iVar) = dtBefore[iPoint][iVar]

\* C2 amended: DualTime_Derivative_n(node, var) is the value
\* DualTime_Derivative(node, var) had before its most recent update whenever
\* that update was preceded by the caller's roll-over of (node, var) and
\* SetDual_Time_Derivative_n(node, var, .) was not called since.
C2_PrevTracksCurrentAfterRollOver ==
  \A iPoint \in Points, iVar \in Vars :
    dtPhase[iPoint][iVar] = "committed" =>
      GetDual_Time_Derivative_n(iPoint, iVar) = dtBefore[iPoint][iVar]

\* a non-baseline current value was rolled and then replaced
C2_Witness ==
  \E iPoint \in Points, iVar \in Vars :
    /\ dtPhase[iPoint][iVar] = "committed"
    /\ dtBefore[iPoint][iVar] = 1
    /\ GetDual_Time_Derivative(iPoint, iVar) # dtBefore[iPoint][iVar]

(* ---- C3 ---- *)

\* C3: the two dual-time setters are independent overwrites: each stores its
\* argument in its own slot and leaves the other slot as it was; and when
\* SetDual_Time_Derivative(node, var, new) follows the caller's roll-over,
\* the previous slot holds afterwards the value the current slot held before
\* it, and the current slot holds new.
C3_RollOverThenSet ==
  [][\A iPoint \in Points, iVar \in Vars, der \in Values :
       /\ SetDual_Time_Derivative(iPoint, iVar, der) =>
            /\ GetDual_Time_Derivative(iPoint, iVar)' = der
            /\ DualTime_Derivative_n' = DualTime_Derivative_n
            /\ dtPhase[iPoint][iVar] = "rolled" =>
                 GetDual_Time_Derivative_n(iPoint, iVar)' =
                   GetDual_Time_Derivative(iPoint, iVar)
       /\ SetDual_Time_Derivative_n(iPoint, iVar, der) =>
            /\ GetDual_Time_Derivative_n(iPoint, iVar)' = der
            /\ DualTime_Derivative' = DualTime_Derivative]_vars

\* scenario 3: current set, rolled, current set to another value
C3_Witness ==
  \E iPoint \in Points, iVar \in Vars :
    /\ dtPhase[iPoint][iVar] = "committed"
    /\ GetDual_Time_Derivative_n(iPoint, iVar) = 1
    /\ GetDual_Time_Derivative(iPoint, iVar) = 0

(* ---- C4 ---- *)

\* C4: Set_BGSSolution_Geometry(i) copies every component of
\* Solution_Geometry(i, .) into Solution_Geometry_BGS_k(i, .) and leaves
\* Solution_Geometry_Old and Solution_Geometry unchanged;
\* Set_OldSolution_Geometry(i) copies every component into
\* Solution_Geometry_Old(i, .) and leaves Solution_Geometry_BGS_k and
\* Solution_Geometry unchanged.
C4_TwoDistinctGeometrySnapshots ==
  [][\A iPoint \in Points :
       /\ Set_BGSSolution_Geometry(iPoint) =>
            /\ \A iDim \in Dims :
                 Get_BGSSolution_Geometry(iPoint, iDim)' =
                   GetSolution_Geometry(iPoint, iDim)
            /\ Solution_Geometry_Old' = Solution_Geometry_Old
            /\ Solution_Geometry' = Solution_Geometry
       /\ Set_OldSolution_Geometry(iPoint) =>
            /\ \A iDim \in Dims :
                 Get_OldSolution_Geometry(iPoint, iDim)' =
                   GetSolution_Geometry(iPoint, iDim)
            /\ Solution_Geometry_BGS_k' = Solution_Geometry_BGS_k
            /\ Solution_Geometry' = Solution_Geometry]_vars

\* both snapshots of one point were taken, with a change of
\* Solution_Geometry between them: the two targets differ
C4_Witness ==
  \E iPoint \in Points :
    /\ geoSnapshotTaken[iPoint]
    /\ oldSnapshots[iPoint] >= 1
    /\ \E iDim \in Dims :
         Get_BGSSolution_Geometry(iPoint, iDim) #
           Get_OldSolution_Geometry(iPoint, iDim)

(* ---- C5 ---- *)

\* the members (by their place in fields) that the step changes
ChangedMembers == {k \in 1 .. Len(fields) : fields'[k] # fields[k]}

\* the values a get of the entry does not return after the step
NotReadBack(got) == Values \ {got}

\* C5: a get issued right after a set returns the value set, whatever was
\* stored before, for every member that has a setter and a getter and every
\* valid (point, component); after a batched set every component of the
\* supplied array is read back.
\* (Stated per member as: a step that returns normally and changes no other
\* member is no set of a value that the get following it does not return.)
C5_SetThenGet ==
  [][\A changed \in {IF outcome' = "ok" THEN ChangedMembers ELSE {0}} :
       /\ changed \subseteq {1} =>
            \A iPoint \in Points, iDim \in Dims :
              \A val \in NotReadBack(GetSensitivity(iPoint, iDim)') :
                ~SetSensitivity(iPoint, iDim, val)
       /\ changed \subseteq {3} =>
            \A iPoint \in Points, iVar \in Vars :
              \A val \in NotReadBack(GetDual_Time_Derivative(iPoint, iVar)') :
                ~SetDual_Time_Derivative(iPoint, iVar, val)
       /\ changed \subseteq {4} =>
            \A iPoint \in Points, iVar \in Vars :
              \A val \in NotReadBack(GetDual_Time_Derivative_n(iPoint, iVar)') :
                ~SetDual_Time_Derivative_n(iPoint, iVar, val)
       /\ changed \subseteq {5} =>
            \A iPoint \in Points, iVar \in Vars :
              \A val \in NotReadBack(GetCross_Term_Derivative(iPoint, iVar)') :
                ~SetCross_Term_Derivative(iPoint, iVar, val)
       /\ changed \subseteq {6} =>
            \A iPoint \in Points, iDim \in Dims :
              \A val \in NotReadBack(GetGeometry_CrossTerm_Derivative(iPoint, iDim)') :
                ~SetGeometry_CrossTerm_Derivative(iPoint, iDim, val)
       /\ changed \subseteq {7} =>
            \A iPoint \in Points, iDim \in Dims :
              \A val \in NotReadBack(GetGeometry_CrossTerm_Derivative_Flow(iPoint, iDim)') :
                ~SetGeometry_CrossTerm_Derivative_Flow(iPoint, iDim, val)
       /\ changed \subseteq {8} =>
            \A iPoint \in Points, iDim \in Dims :
              \A val \in NotReadBack(GetSolution_Geometry(iPoint, iDim)') :
                ~SetSolution_Geometry(iPoint, iDim, val)
       /\ changed \subseteq {11} =>
            \A iPoint \in Points, iVar \in Vars :
              \A val \in NotReadBack(Get_BGSSolution(iPoint, iVar)') :
                ~Set_BGSSolution(iPoint, iVar, val)
       /\ changed \subseteq {8} =>
            \A iPoint \in Points, val \in ExactDimArrays :
              (\E iDim \in Dims :
                 GetSolution_Geometry(iPoint, iDim)' # val[iDim + 1])
              => ~SetSolution_GeometryRow(iPoint, val)
       /\ changed \subseteq {2} =>
            \A iPoint \in Points, val \in ExactVarArrays :
              (\E iVar \in Vars :
                 GetSolution_Direct(iPoint)'[iVar] # val[iVar + 1])
              => ~SetSolution_Direct(iPoint, val)
       /\ changed \subseteq {10} =>
            \A iPoint \in Points, val \in ExactDimArrays :
              (\E iDim \in Dims :
                 \/ GetGeometry_Direct(iPoint, iDim)' # val[iDim + 1]
                 \/ GetGeometry_DirectRow(iPoint)'[iDim] # val[iDim + 1])
              => ~SetGeometry_Direct(iPoint, val)
    ]_vars

\* two sets were made: a per-component one and a batched one are read back
C5_Witness ==
  /\ steps = 2
  /\ outcome = "ok"
  /\ \E iPoint \in Points, iDim \in Dims : GetSensitivity(iPoint, iDim) = 1
  /\ \E iPoint \in Points :
       \A iVar \in Vars : GetSolution_Direct(iPoint)[iVar] = 1

(* ---- C6 ---- *)

\* the step is a call, applied to point iPoint, of a method that stores
WriteAppliedTo(iPoint) ==
  \/ /\ Sensitivity' # Sensitivity
     /\ \E iDim \in DimArgs, val \in Values : SetSensitivity(iPoint, iDim, val)
  \/ /\ DualTime_Derivative' # DualTime_Derivative
     /\ \E iVar \in VarArgs, der \in Values :
          SetDual_Time_Derivative(iPoint, iVar, der)
  \/ /\ DualTime_Derivative_n' # DualTime_Derivative_n
     /\ \E iVar \in VarArgs, der \in Values :
          SetDual_Time_Derivative_n(iPoint, iVar, der)
  \/ /\ Solution_Direct' # Solution_Direct
     /\ \E val \in VarArrays : SetSolution_Direct(iPoint, val)
  \/ /\ Geometry_Direct' # Geometry_Direct
     /\ \E val \in DimArrays : SetGeometry_Direct(iPoint, val)
  \/ /\ Solution_Geometry' # Solution_Geometry
     /\ \/ \E val \in DimArrays : SetSolution_GeometryRow(iPoint, val)
        \/ \E iVar \in DimArgs, val \in Values :
             SetSolution_Geometry(iPoint, iVar, val)
  \/ /\ Geometry_CrossTerm_Derivative' # Geometry_CrossTerm_Derivative
     /\ \E iDim \in DimArgs, der \in Values :
          SetGeometry_CrossTerm_Derivative(iPoint, iDim, der)
  \/ /\ Geometry_CrossTerm_Derivative_Flow' # Geometry_CrossTerm_Derivative_Flow
     /\ \E iDim \in DimArgs, der \in Values :
          SetGeometry_CrossTerm_Derivative_Flow(iPoint, iDim, der)
  \/ /\ Cross_Term_Derivative' # Cross_Term_Derivative
     /\ \E iVar \in VarArgs, der \in Values :
          SetCross_Term_Derivative(iPoint, iVar, der)
  \/ /\ Solution_BGS' # Solution_BGS
     /\ \E iDim \in VarArgs, val \in Values : Set_BGSSolution(iPoint, iDim, val)
  \/ /\ Solution_Geometry_Old' # Solution_Geometry_Old
     /\ Set_OldSolution_Geometry(iPoint)
  \/ /\ Solution_BGS_k' # Solution_BGS_k
     /\ Set_BGSSolution_k(iPoint)
  \/ /\ Solution_Geometry_BGS_k' # Solution_Geometry_BGS_k
     /\ Set_BGSSolution_Geometry(iPoint)

\* C6: a call applied to point i (a per-component setter, a batched setter
\* or one of the three snapshots) changes no member's value at any point
\* j # i: a step that changes a row of another point is no such call.
C6_OtherPointsUnchanged ==
  [][\A changedAt \in {{jPoint \in Points : RowsAt(jPoint)' # RowsAt(jPoint)}} :
       \A iPoint \in Points :
         changedAt \ {iPoint} # {} => ~WriteAppliedTo(iPoint)]_vars

\* two points hold non-baseline values, each written by a call applied to
\* it alone: a per-component set at one, a batched set at the other
C6_Witness ==
  \E iPoint \in Points, jPoint \in Points :
    /\ iPoint # jPoint
    /\ \E iDim \in Dims : GetSensitivity(iPoint, iDim) = 1
    /\ \A iDim \in Dims : GetSensitivity(jPoint, iDim) = 0
    /\ \A iVar \in Vars : GetSolution_Direct(jPoint)[iVar] = 1
    /\ \A iVar \in Vars : GetSolution_Direct(iPoint)[iVar] = 0

(* ---- C7 ---- *)

\* C7: Set_OldSolution_Geometry(i) called again, with no change of
\* Solution_Geometry(i, .) since the call before, leaves
\* Solution_Geometry_Old(i, .) as that call left it, in every dimension.
C7_OldSnapshotIdempotent ==
  [][\A iPoint \in Points :
       (Set_OldSolution_Geometry(iPoint) /\ oldSnapshots[iPoint] >= 1) =>
         \A iDim \in Dims :
           Get_OldSolution_Geometry(iPoint, iDim)' =
             Get_OldSolution_Geometry(iPoint, iDim)]_vars

\* a non-baseline geometry solution was snapshotted twice in a row
C7_Witness ==
  \E iPoint \in Points :
    /\ oldSnapshots[iPoint] = 2
    /\ \E iDim \in Dims : Get_OldSolution_Geometry(iPoint, iDim) = 1

(* ---- C8 ---- *)

\* C8: a get or set whose point index is nPoint, or whose component index is
\* the width of the member's axis, ends in the error outcome and changes no
\* stored value (no clamping, no wrapping).
C8_OutOfRangeFails ==
  [][badIndex' => outcome' = "error" /\ UNCHANGED fields]_vars

\* a call failed while non-baseline values were stored
C8_Witness ==
  /\ badIndex
  /\ outcome = "error"
  /\ steps = 2
  /\ \E iPoint \in Points, iDim \in Dims : GetSensitivity(iPoint, iDim) = 1

(* ---- C9 ---- *)

\* C9: a call changes no member but its own target, and the three snapshot
\* members change only by their own snapshot call: Solution_BGS_k by
\* Set_BGSSolution_k, Solution_Geometry_BGS_k by Set_BGSSolution_Geometry,
\* Solution_Geometry_Old by Set_OldSolution_Geometry.
C9_OnlyTargetChanges ==
  [][/\ Cardinality(ChangedMembers) <= 1
     /\ Solution_BGS_k' # Solution_BGS_k =>
          \E iPoint \in Points : Set_BGSSolution_k(iPoint)
     /\ Solution_Geometry_BGS_k' # Solution_Geometry_BGS_k =>
          \E iPoint \in Points : Set_BGSSolution_Geometry(iPoint)
     /\ Solution_Geometry_Old' # Solution_Geometry_Old =>
          \E iPoint \in Points : Set_OldSolution_Geometry(iPoint)]_vars

\* scenario 1: sensitivities were set and every other member is at baseline
C9_Witness ==
  /\ \A iDim \in Dims : GetSensitivity(0, iDim) = 1
  /\ \A k \in 2 .. Len(fields) :
       \A iPoint \in Points :
         \A j \in DOMAIN fields[k][iPoint] : fields[k][iPoint][j] = 0

(* ---- C10 ---- *)

\* C10: a batched set given an array whose length differs from the member's
\* width ends in the error outcome and leaves the stored row unchanged.
C10_WidthMismatchFails ==
  [][\A iPoint \in Points :
       (\/ \E val \in MismatchedVarArrays : SetSolution_Direct(iPoint, val)
        \/ \E val \in MismatchedDimArrays :
             \/ SetGeometry_Direct(iPoint, val)
             \/ SetSolution_GeometryRow(iPoint, val))
       => (outcome' = "error" /\ UNCHANGED fields)]_vars

=============================================================================
